---- MODULE Spec2Model ----
(***************************************************************************)
(* A model of the generic two-dimensional grid of src/src/grid.rs and of   *)
(* the grid loader of src/src/util.rs.                                     *)
(*                                                                         *)
(* A Grid is the record [data, width, height]; data is a sequence, so the  *)
(* Rust index i is data[i+1].  A GridPoint is the record [index, coords].  *)
(* Every Rust call returns a result record [outcome, val]: outcome "ok",   *)
(* "panic" (a fatal failure: assert!, slice or Vec bounds check, checked   *)
(* arithmetic of a build with overflow checks) or "err" (an anyhow error   *)
(* value).  An Option is a sequence of length 0 (None) or 1 (Some).        *)
(* usize and isize are WordBits wide; `checks` says whether the build has  *)
(* overflow checks (cargo's dev profile) or wraps (the release profile).   *)
(***************************************************************************)
EXTENDS Integers, Sequences, FiniteSets, TLC

VARIABLES grid, res, walk, hist, kept

vars == <<grid, res, walk, hist, kept>>

(* ------------------------------ bounds --------------------------------- *)

\* widest and tallest grid the constructors are called with
MaxW == 3
MaxH == 3
\* most cells of a grid whose contents are explored cell by cell
MaxCells == 6
\* largest n of padded(val, n)
MaxPad == 1
\* side of the largest grid of the navigation specification
MaxNavDim == 3
\* ordinary offsets are -MaxDelta..MaxDelta (the extremes of isize are added)
MaxDelta == 2
\* width in bits of usize and isize in the model
WordBits == 8
\* longest input stream of load_grid, in characters
MaxInput == 5
\* most steps the program makes of one walk iterator
MaxSteps == 4
\* most cells of a grid of the borrowing specification
MaxBorrowCells == 4
\* most pieces (prefixes of the number words, single bytes) a line of p01 is
\* made of
MaxTokens == 2
\* most cells of a grid of p03
MaxNumCells == 6
\* width in bits of u32 in the model
U32Bits == 8
\* most cards of an input of p04
MaxCards == 5
\* most matches of a card of p04
MaxMatches == 4
\* width in bits of u64 in the model
U64Bits == 5
\* most ranges of a Map of p05
MaxRanges == 2
\* ordinary values of p05 are 0..MaxSrc (the two largest u64 are added)
MaxSrc == 3
\* longest range of p05
MaxLen == 3

\* the cell type T is bool
Vals == BOOLEAN

Modulus == 2^WordBits
UsizeMax == Modulus - 1
IsizeMin == -(2^(WordBits-1))
IsizeMax == 2^(WordBits-1) - 1

(* ------------------------- results and options ------------------------- *)

Ok(v) == [outcome |-> "ok", val |-> v]
Panic == [outcome |-> "panic", val |-> <<>>]
Err == [outcome |-> "err", val |-> <<>>]

None == <<>>
Some(v) == <<v>>

(* --------------------------- machine integers -------------------------- *)

\* usize::checked_sub / usize::checked_add
checked_sub(a, b) == IF a >= b THEN Some(a - b) ELSE None

checked_add(a, b) == IF a + b <= UsizeMax THEN Some(a + b) ELSE None

\* a - b and a + b on usize: panics with overflow checks, wraps without
usize_sub(a, b, checks) ==
    IF a >= b THEN Ok(a - b)
    ELSE IF checks THEN Panic ELSE Ok(a - b + Modulus)

usize_add(a, b, checks) ==
    IF a + b <= UsizeMax THEN Ok(a + b)
    ELSE IF checks THEN Panic ELSE Ok(a + b - Modulus)

\* -d on isize: isize::MIN has no negation
isize_neg(d, checks) ==
    IF d = IsizeMin THEN (IF checks THEN Panic ELSE Ok(IsizeMin))
    ELSE Ok(-d)

\* d as usize
as_usize(d) == IF d < 0 THEN d + Modulus ELSE d

\* isize::unsigned_abs
unsigned_abs(d) == IF d < 0 THEN -d ELSE d

(* ------------------------------ Vec, slices ---------------------------- *)

\* v[i] on a Vec or slice: bounds-checked
vec_index(v, i) == IF i < Len(v) THEN Ok(v[i + 1]) ELSE Panic

\* the places a..b-1 of &v[a..b]: panics when a > b or b > len
slice_range(len, a, b) ==
    IF a > b \/ b > len THEN Panic
    ELSE Ok([k \in 1..(b - a) |-> a + k - 1])

\* Iterator::step_by(step) over a sequence: elements 0, step, 2*step, ...
step_by(s, step) ==
    IF step = 0 THEN Panic
    ELSE Ok([k \in 1..((Len(s) + step - 1) \div step) |-> s[(k - 1) * step + 1]])

\* Iterator::rev of a double-ended iterator
rev(s) == [k \in 1..Len(s) |-> s[Len(s) + 1 - k]]

\* vec![val; n]
vec_repeat(val, n) == [k \in 1..n |-> val]

(* --------------------------------- Grid -------------------------------- *)

MkGrid(data, width, height) == [data |-> data, width |-> width, height |-> height]

\* from_data without the divisibility assertion
from_data_unchecked(data, width) ==
    IF width = 0 THEN Panic
    ELSE Ok(MkGrid(data, width, Len(data) \div width))

\* from_data storing the width as the height and the height as the width
from_data_swapped(data, width) ==
    IF width = 0 THEN Panic
    ELSE IF Len(data) % width # 0 THEN Panic
    ELSE Ok(MkGrid(data, Len(data) \div width, width))

\* Grid::from_data: data.len() % width panics for width = 0 (remainder by zero)
from_data(data, width) ==
    IF width = 0 THEN Panic
    ELSE IF Len(data) % width # 0 THEN Panic
    ELSE Ok(MkGrid(data, width, Len(data) \div width))

\* the closures the callers pass to from_fn
Funcs == {"sum_odd", "x_odd", "y_odd", "false"}

\* a call of the closure; "coords" is |x, y| (x, y), the closure that returns
\* its arguments: the cells of the grid from_fn builds with it are the calls
\* from_fn made, in the order it made them

call_func(f, x, y) ==
    CASE f = "sum_odd" -> (x + y) % 2 = 1
      [] f = "x_odd" -> x % 2 = 1
      [] f = "y_odd" -> y % 2 = 1
      [] f = "coords" -> <<x, y>>
      [] OTHER -> FALSE

\* the inner loop of from_fn: for x in 0..width { data.push(func(x, y)) }
RECURSIVE from_fn_row(_, _, _, _, _)
from_fn_row(f, width, y, x, data) ==
    IF x >= width THEN data
    ELSE from_fn_row(f, width, y, x + 1, Append(data, call_func(f, x, y)))

\* the outer loop of from_fn: for y in 0..height
RECURSIVE from_fn_rows(_, _, _, _, _)
from_fn_rows(f, width, height, y, data) ==
    IF y >= height THEN data
    ELSE from_fn_rows(f, width, height, y + 1, from_fn_row(f, width, y, 0, data))

\* from_fn with the loops exchanged: x outer, y inner
from_fn_x_outer(width, height, f) ==
    Ok(MkGrid([k \in 1..(width * height) |->
                  call_func(f, (k - 1) \div height, (k - 1) % height)],
              width, height))

\* Grid::from_fn
from_fn(width, height, f) ==
    Ok(MkGrid(from_fn_rows(f, width, height, 0, <<>>), width, height))

\* the closures the callers pass to map
MapFuncs == {"id", "not", "false", "true"}

call_map_func(f, v) ==
    CASE f = "id" -> v
      [] f = "not" -> ~v
      [] f = "true" -> TRUE
      [] OTHER -> FALSE

\* map collecting the cells in the opposite order
map_reversed(g, f) ==
    Ok(MkGrid([k \in 1..Len(g.data) |-> call_map_func(f, g.data[Len(g.data) + 1 - k])],
              g.width, g.height))

\* Grid::map
map(g, f) ==
    Ok(MkGrid([k \in 1..Len(g.data) |-> call_map_func(f, g.data[k])], g.width, g.height))

InGrid(g, pos) == pos[1] < g.width /\ pos[2] < g.height

\* the bounds assertion of get with <= for <
get_off_by_one(g, pos) ==
    IF ~(pos[1] <= g.width /\ pos[2] <= g.height) THEN Panic
    ELSE vec_index(g.data, g.width * pos[2] + pos[1])

\* Grid::get
get(g, pos) ==
    IF ~InGrid(g, pos) THEN Panic
    ELSE vec_index(g.data, g.width * pos[2] + pos[1])

\* try_get testing only the column
try_get_x_only(g, pos) ==
    IF ~(pos[1] < g.width) THEN Ok(None)
    ELSE LET r == vec_index(g.data, g.width * pos[2] + pos[1])
         IN  IF r.outcome = "panic" THEN Panic ELSE Ok(Some(r.val))

\* Grid::try_get
try_get(g, pos) ==
    IF ~InGrid(g, pos) THEN Ok(None)
    ELSE LET r == vec_index(g.data, g.width * pos[2] + pos[1])
         IN  IF r.outcome = "panic" THEN Panic ELSE Ok(Some(r.val))

\* Grid::get_mut: the place (index into data) the returned reference names
get_mut(g, pos) ==
    IF ~InGrid(g, pos) THEN Panic
    ELSE LET i == g.width * pos[2] + pos[1]
         IN  IF i < Len(g.data) THEN Ok(i) ELSE Panic

\* a write that also reaches the cell after the one addressed
write_and_next(g, place, val) ==
    [g EXCEPT !.data = [k \in 1..Len(g.data) |->
                           IF k = place + 1 \/ k = place + 2 THEN val ELSE g.data[k]]]

\* *place = val
write(g, place, val) == [g EXCEPT !.data[place + 1] = val]

\* Grid::set
set(g, pos, val) ==
    LET r == get_mut(g, pos)
    IN  IF r.outcome = "panic" THEN Panic ELSE Ok(write(g, r.val, val))

\* Grid::filled
filled(width, height, val) == Ok(MkGrid(vec_repeat(val, width * height), width, height))

\* Grid::filled_like
filled_like(other, val) == filled(other.width, other.height, val)

\* Grid::fill
fill(g, val) == Ok([g EXCEPT !.data = [k \in 1..Len(g.data) |-> val]])

\* the copy of row y of padded: new_data[ny*new_w + n .. ny*new_w + n + width]
\*     .copy_from_slice(&data[y*width .. (y+1)*width])
padded_copy_row(g, n, new_w, y, new_data) ==
    LET ny == y + n
        dst == slice_range(Len(new_data), ny * new_w + n, ny * new_w + n + g.width)
        src == slice_range(Len(g.data), y * g.width, (y + 1) * g.width)
    IN  IF dst.outcome = "panic" \/ src.outcome = "panic" THEN Panic
        ELSE IF Len(dst.val) # Len(src.val) THEN Panic
        ELSE Ok([k \in 1..Len(new_data) |->
                    IF \E j \in 1..Len(dst.val) : dst.val[j] = k - 1
                    THEN g.data[src.val[k - 1 - (ny * new_w + n) + 1] + 1]
                    ELSE new_data[k]])

\* the loop of padded: for y in 0..height
RECURSIVE padded_rows(_, _, _, _, _)
padded_rows(g, n, new_w, y, new_data) ==
    IF y >= g.height THEN Ok(new_data)
    ELSE LET r == padded_copy_row(g, n, new_w, y, new_data)
         IN  IF r.outcome = "panic" THEN Panic
             ELSE padded_rows(g, n, new_w, y + 1, r.val)

\* padded copying each row to offset (0, n) instead of (n, n)
padded_shifted(g, val, n) ==
    LET new_w == g.width + 2 * n
        new_h == g.height + 2 * n
        r == padded_rows(g, 0, new_w, 0, vec_repeat(val, new_w * new_h))
    IN  IF r.outcome = "panic" THEN Panic ELSE Ok(MkGrid(r.val, new_w, new_h))

\* Grid::padded
padded(g, val, n) ==
    LET new_w == g.width + 2 * n
        new_h == g.height + 2 * n
        r == padded_rows(g, n, new_w, 0, vec_repeat(val, new_w * new_h))
    IN  IF r.outcome = "panic" THEN Panic ELSE Ok(MkGrid(r.val, new_w, new_h))

\* row_iter starting one row too early
row_iter_prev_row(g, row) ==
    IF ~(row < g.height) THEN Panic
    ELSE LET start_idx == IF row = 0 THEN 0 ELSE (row - 1) * g.width
         IN  slice_range(Len(g.data), start_idx, start_idx + g.width)

\* Grid::row_iter and Grid::row_iter_mut: the places of data the iterator
\* yields references to, in the order it yields them
row_iter(g, row) ==
    IF ~(row < g.height) THEN Panic
    ELSE LET start_idx == row * g.width
         IN  slice_range(Len(g.data), start_idx, start_idx + g.width)

\* Grid::col_iter and Grid::col_iter_mut: the places of data the iterator
\* yields references to, in the order it yields them
col_iter(g, col, checks) ==
    IF ~(col < g.width) THEN Panic
    ELSE LET start_idx == col
             t1 == usize_sub(g.width, col, checks)
             t2 == IF t1.outcome = "panic" THEN Panic
                   ELSE usize_sub(Len(g.data), t1.val, checks)
             end_idx == IF t2.outcome = "panic" THEN Panic
                        ELSE usize_add(t2.val, 1, checks)
             content == IF end_idx.outcome = "panic" THEN Panic
                        ELSE slice_range(Len(g.data), start_idx, end_idx.val)
         IN  IF content.outcome = "panic" THEN Panic
             ELSE step_by(content.val, g.width)

(* ------------------------------- GridPoint ----------------------------- *)

MkPoint(index, coords) == [index |-> index, coords |-> coords]

\* points with the coordinates exchanged: (idx / width, idx % width)
points_swapped(g) ==
    IF Len(g.data) > 0 /\ g.width = 0 THEN Panic
    ELSE Ok([k \in 1..Len(g.data) |->
                MkPoint(k - 1, <<(k - 1) \div g.width, (k - 1) % g.width>>)])

\* Grid::points: idx % width panics for width = 0 (remainder by zero)
points(g) ==
    IF Len(g.data) > 0 /\ g.width = 0 THEN Panic
    ELSE Ok([k \in 1..Len(g.data) |->
                MkPoint(k - 1, <<(k - 1) % g.width, (k - 1) \div g.width>>)])

\* Grid::point
point(g, pos) ==
    IF ~InGrid(g, pos) THEN Panic
    ELSE Ok(MkPoint(pos[1] + pos[2] * g.width, pos))

\* Deref for GridPoint
deref(g, p) == vec_index(g.data, p.index)

\* find keeping the points whose cell differs from val
find_other(g, val) ==
    LET ps == points(g)
    IN  IF ps.outcome = "panic" THEN Panic
        ELSE IF \E k \in 1..Len(ps.val) : deref(g, ps.val[k]).outcome = "panic" THEN Panic
        ELSE Ok(SelectSeq(ps.val, LAMBDA p : deref(g, p).val # val))

\* Grid::find
find(g, val) ==
    LET ps == points(g)
    IN  IF ps.outcome = "panic" THEN Panic
        ELSE IF \E k \in 1..Len(ps.val) : deref(g, ps.val[k]).outcome = "panic" THEN Panic
        ELSE Ok(SelectSeq(ps.val, LAMBDA p : deref(g, p).val = val))

\* the X half of offset without the test x >= width
offset_x_unbounded(g, p, dx) ==
    IF dx < 0
    THEN LET u == unsigned_abs(dx)
             x == checked_sub(p.coords[1], u)
         IN  IF x = None THEN None ELSE Some(<<x[1], p.index - u>>)
    ELSE LET u == as_usize(dx)
             x == checked_add(p.coords[1], u)
         IN  IF x = None THEN None ELSE Some(<<x[1], p.index + u>>)

\* the X half of offset: None, or Some(<<x, index>>)
offset_x(g, p, dx) ==
    IF dx < 0
    THEN LET u == unsigned_abs(dx)
             x == checked_sub(p.coords[1], u)
         IN  IF x = None THEN None ELSE Some(<<x[1], p.index - u>>)
    ELSE LET u == as_usize(dx)
             x == checked_add(p.coords[1], u)
         IN  IF x = None THEN None
             ELSE IF x[1] >= g.width THEN None
             ELSE Some(<<x[1], p.index + u>>)

\* the Y half of offset moving the index up by dy cells instead of dy rows
offset_y_rowless(g, p, index, dy, checks) ==
    IF dy < 0
    THEN LET neg == isize_neg(dy, checks)
         IN  IF neg.outcome = "panic" THEN Panic
             ELSE LET u == as_usize(neg.val)
                      y == checked_sub(p.coords[2], u)
                  IN  IF y = None THEN Ok(None)
                      ELSE Ok(Some(<<y[1], index - u>>))
    ELSE LET u == as_usize(dy)
             y == checked_add(p.coords[2], u)
         IN  IF y = None THEN Ok(None)
             ELSE IF y[1] >= g.height THEN Ok(None)
             ELSE Ok(Some(<<y[1], index + g.width * u>>))

\* the Y half of offset, from the index the X half left: a result holding
\* None or Some(<<y, index>>)
offset_y(g, p, index, dy, checks) ==
    IF dy < 0
    THEN LET neg == isize_neg(dy, checks)
         IN  IF neg.outcome = "panic" THEN Panic
             ELSE LET u == as_usize(neg.val)
                      y == checked_sub(p.coords[2], u)
                  IN  IF y = None THEN Ok(None)
                      ELSE Ok(Some(<<y[1], index - g.width * u>>))
    ELSE LET u == as_usize(dy)
             y == checked_add(p.coords[2], u)
         IN  IF y = None THEN Ok(None)
             ELSE IF y[1] >= g.height THEN Ok(None)
             ELSE Ok(Some(<<y[1], index + g.width * u>>))

\* GridPoint::offset
offset(g, p, d, checks) ==
    LET ox == offset_x(g, p, d[1])
    IN  IF ox = None THEN Ok(None)
        ELSE LET oy == offset_y(g, p, ox[1][2], d[2], checks)
             IN  IF oy.outcome = "panic" THEN Panic
                 ELSE IF oy.val = None THEN Ok(None)
                 ELSE Ok(Some(MkPoint(oy.val[1][2], <<ox[1][1], oy.val[1][1]>>)))

\* GridPoint::left
left(g, p) ==
    IF p.coords[1] > 0
    THEN Ok(Some(MkPoint(p.index - 1, <<p.coords[1] - 1, p.coords[2]>>)))
    ELSE Ok(None)

\* right testing x < width instead of x < width - 1
right_within_width(g, p, checks) ==
    IF p.coords[1] < g.width
    THEN Ok(Some(MkPoint(p.index + 1, <<p.coords[1] + 1, p.coords[2]>>)))
    ELSE Ok(None)

\* GridPoint::right: width - 1 is a usize subtraction
right(g, p, checks) ==
    LET w1 == usize_sub(g.width, 1, checks)
    IN  IF w1.outcome = "panic" THEN Panic
        ELSE IF p.coords[1] < w1.val
        THEN Ok(Some(MkPoint(p.index + 1, <<p.coords[1] + 1, p.coords[2]>>)))
        ELSE Ok(None)

\* GridPoint::up
up(g, p) ==
    IF p.coords[2] > 0
    THEN Ok(Some(MkPoint(p.index - g.width, <<p.coords[1], p.coords[2] - 1>>)))
    ELSE Ok(None)

\* GridPoint::down: height - 1 is a usize subtraction
down(g, p, checks) ==
    LET h1 == usize_sub(g.height, 1, checks)
    IN  IF h1.outcome = "panic" THEN Panic
        ELSE IF p.coords[2] < h1.val
        THEN Ok(Some(MkPoint(p.index + g.width, <<p.coords[1], p.coords[2] + 1>>)))
        ELSE Ok(None)

\* the delta array with W and E exchanged
NeighborDeltasEastFirst ==
    << <<-1, -1>>, <<0, -1>>, <<1, -1>>,
       <<1, 0>>,              <<-1, 0>>,
       <<-1, 1>>,  <<0, 1>>,  <<1, 1>> >>

\* the delta array of neighbors
NeighborDeltas ==
    << <<-1, -1>>, <<0, -1>>, <<1, -1>>,
       <<-1, 0>>,             <<1, 0>>,
       <<-1, 1>>,  <<0, 1>>,  <<1, 1>> >>

\* filter_map(|delta| self.offset(delta)) over the first k deltas
RECURSIVE neighbors_upto(_, _, _, _, _)
neighbors_upto(g, p, deltas, k, checks) ==
    IF k = 0 THEN Ok(<<>>)
    ELSE LET before == neighbors_upto(g, p, deltas, k - 1, checks)
             o == offset(g, p, deltas[k], checks)
         IN  IF before.outcome = "panic" \/ o.outcome = "panic" THEN Panic
             ELSE Ok(before.val \o o.val)

\* GridPoint::neighbors
neighbors(g, p, checks) == neighbors_upto(g, p, NeighborDeltas, Len(NeighborDeltas), checks)

\* GridPoint::walk_left, walk_right: a GridPointWalkRow
walk_left(p) == [right |-> FALSE, point |-> p]

walk_right(p) == [right |-> TRUE, point |-> p]

\* GridPoint::walk_up, walk_down: a GridPointWalkColumn
walk_up(p) == [down |-> FALSE, point |-> p]

walk_down(p) == [down |-> TRUE, point |-> p]

\* what a step of a walk leaves: the walk after it and the item it returned
Stepped(w, r) ==
    IF r.outcome = "panic" THEN Panic
    ELSE IF r.val = None THEN Ok([walk |-> w, item |-> None])
    ELSE Ok([walk |-> [w EXCEPT !.point = r.val[1]], item |-> r.val])

\* next for GridPointWalkRow returning the neighbour without storing it in
\* self.point
walk_row_next_stuck(g, w, checks) ==
    LET r == IF w.right THEN right(g, w.point, checks) ELSE left(g, w.point)
    IN  IF r.outcome = "panic" THEN Panic ELSE Ok([walk |-> w, item |-> r.val])

\* Iterator::next for GridPointWalkRow
walk_row_next(g, w, checks) ==
    IF w.right THEN Stepped(w, right(g, w.point, checks))
    ELSE Stepped(w, left(g, w.point))

\* Iterator::next for GridPointWalkColumn
walk_column_next(g, w, checks) ==
    IF w.down THEN Stepped(w, down(g, w.point, checks))
    ELSE Stepped(w, up(g, w.point))

(* ------------------------------- load_grid ----------------------------- *)

\* the characters of an input stream: "0" converts to FALSE, "e2" is a
\* two-byte character that converts to TRUE, "x" is a character whose
\* conversion fails, "nl" is the line feed
Chars == {"0", "x", "e2", "nl"}

\* char::len_utf8
len_utf8(c) == IF c = "e2" THEN 2 ELSE 1

\* char::is_whitespace
is_whitespace(c) == c = "nl"

\* the caller's T::try_from(c)
try_from_char(c) ==
    CASE c = "0" -> Ok(FALSE)
      [] c = "e2" -> Ok(TRUE)
      [] OTHER -> Err

\* str::len: the length in bytes
RECURSIVE str_len(_)
str_len(s) == IF s = <<>> THEN 0 ELSE len_utf8(Head(s)) + str_len(Tail(s))

\* str::trim
RECURSIVE trim_start(_)
trim_start(s) ==
    IF s # <<>> /\ is_whitespace(Head(s)) THEN trim_start(Tail(s)) ELSE s

RECURSIVE trim_end(_)
trim_end(s) ==
    IF s # <<>> /\ is_whitespace(s[Len(s)]) THEN trim_end(SubSeq(s, 1, Len(s) - 1)) ELSE s

trim(s) == trim_end(trim_start(s))

\* BufRead::read_line from position pos (0-based): the characters up to and
\* including the next line feed, or up to the end of the input
RECURSIVE read_line(_, _)
read_line(input, pos) ==
    IF pos >= Len(input) THEN <<>>
    ELSE IF input[pos + 1] = "nl" THEN <<"nl">>
    ELSE <<input[pos + 1]>> \o read_line(input, pos + 1)

\* for c in trimmed.chars() { data.push(T::try_from(c)?) }
RECURSIVE parse_chars(_, _)
parse_chars(s, data) ==
    IF s = <<>> THEN Ok(data)
    ELSE LET c == try_from_char(Head(s))
         IN  IF c.outcome = "err" THEN Err
             ELSE parse_chars(Tail(s), Append(data, c.val))

\* the while loop of load_grid and its final from_data; a blank line leaves
\* the loop body at `continue`, before line.clear()
RECURSIVE load_grid_loop(_, _, _, _, _)
load_grid_loop(input, pos, line, data, width) ==
    LET got == read_line(input, pos)
        line2 == line \o got
        trimmed == trim(line2)
    IN  IF Len(got) = 0
        THEN from_data(data, IF width = None THEN 0 ELSE width[1])
        ELSE IF trimmed = <<>>
        THEN load_grid_loop(input, pos + Len(got), line2, data, width)
        ELSE IF width # None /\ width[1] # str_len(trimmed) THEN Err
        ELSE LET parsed == parse_chars(trimmed, data)
             IN  IF parsed.outcome = "err" THEN Err
                 ELSE load_grid_loop(input, pos + Len(got), <<>>, parsed.val,
                                     IF width = None THEN Some(str_len(trimmed)) ELSE width)

\* util::load_grid
load_grid(input) == load_grid_loop(input, 0, <<>>, <<>>, None)

(* --------------------------------- p01 --------------------------------- *)

\* a line is the sequence of its bytes; a byte is written as its character
Alphabet == <<"a", "b", "c", "d", "e", "f", "g", "h", "i", "j", "k", "l", "m", "n", "o", "p", "q", "r", "s", "t", "u", "v", "w", "x", "y", "z">>

AsciiDigits == <<"0", "1", "2", "3", "4", "5", "6", "7", "8", "9">>

\* u8::is_ascii_digit, u8::is_ascii_lowercase
is_ascii_digit(c) == \E i \in 1..Len(AsciiDigits) : AsciiDigits[i] = c

is_ascii_lowercase(c) == \E i \in 1..Len(Alphabet) : Alphabet[i] = c

\* c - b'0' of an ASCII digit and c - b'a' of a lowercase letter
sub_byte(c, base) == (CHOOSE i \in 1..Len(base) : base[i] = c) - 1

\* DIGITS of digits2
DIGITS ==
    << <<<<"o", "n", "e">>, 1>>,
       <<<<"t", "w", "o">>, 2>>,
       <<<<"t", "h", "r", "e", "e">>, 3>>,
       <<<<"f", "o", "u", "r">>, 4>>,
       <<<<"f", "i", "v", "e">>, 5>>,
       <<<<"s", "i", "x">>, 6>>,
       <<<<"s", "e", "v", "e", "n">>, 7>>,
       <<<<"e", "i", "g", "h", "t">>, 8>>,
       <<<<"n", "i", "n", "e">>, 9>> >>

\* slice::starts_with
starts_with(data, pat) ==
    Len(data) >= Len(pat) /\ SubSeq(data, 1, Len(pat)) = pat

\* matches!(data[0], b'e'..=b'i' | b'n' | b'o' | b'r'..=b't' | b'u'..=b'x')
matches_word_byte(c) ==
    c \in {"e", "f", "g", "h", "i", "n", "o", "r", "s", "t", "u", "v", "w", "x"}

\* the while loop of digits2
RECURSIVE digits2_loop(_, _)
digits2_loop(data, out) ==
    IF data = <<>> THEN out
    ELSE IF is_ascii_digit(data[1])
    THEN digits2_loop(Tail(data), Append(out, sub_byte(data[1], AsciiDigits)))
    ELSE IF ~matches_word_byte(data[1]) THEN digits2_loop(Tail(data), out)
    ELSE LET found == {k \in 1..Len(DIGITS) : starts_with(data, DIGITS[k][1])}
         IN  IF found # {}
             THEN LET k == CHOOSE i \in found : \A j \in found : i <= j
                      pat == DIGITS[k][1]
                  IN  digits2_loop(SubSeq(data, Len(pat), Len(data)),
                                   Append(out, DIGITS[k][2]))
             ELSE digits2_loop(Tail(data), out)

\* Line::digits2
digits2(line) == digits2_loop(line, <<>>)

\* STATE_TABLE of digits3: row state + 1, column token + 1
\*      o   e   r   x   n   t   w   h   f   u   i   v   s   g
STATE_TABLE ==
    <<
       << 1,  5,  0,  0,  6,  2,  0,  0,  3,  0,  0,  0,  4,  0>>,  \* 0
       << 1,  5,  0,  0,  7,  2,  0,  0,  3,  0,  0,  0,  4,  0>>,  \* 1
       << 1,  5,  0,  0,  6,  2,  8,  9,  3,  0,  0,  0,  4,  0>>,  \* 2
       <<10,  5,  0,  0,  6,  2,  0,  0,  3,  0, 11,  0,  4,  0>>,  \* 3
       << 1, 13,  0,  0,  6,  2,  0,  0,  3,  0, 12,  0,  4,  0>>,  \* 4
       << 1,  5,  0,  0,  6,  2,  0,  0,  3,  0, 14,  0,  4,  0>>,  \* 5
       << 1,  5,  0,  0,  6,  2,  0,  0,  3,  0, 15,  0,  4,  0>>,  \* 6
       << 1, 25,  0,  0,  6,  2,  0,  0,  3,  0, 15,  0,  4,  0>>,  \* 7
       <<26,  5,  0,  0,  6,  2,  0,  0,  3,  0,  0,  0,  4,  0>>,  \* 8
       << 1,  5, 16,  0,  6,  2,  0,  0,  3,  0,  0,  0,  4,  0>>,  \* 9
       << 1,  5,  0,  0,  7,  2,  0,  0,  3, 17,  0,  0,  4,  0>>,  \* 10
       << 1,  5,  0,  0,  6,  2,  0,  0,  3,  0,  0, 18,  4,  0>>,  \* 11
       << 1,  5,  0, 30,  6,  2,  0,  0,  3,  0,  0,  0,  4,  0>>,  \* 12
       << 1,  5,  0,  0,  6,  2,  0,  0,  3,  0, 14, 19,  4,  0>>,  \* 13
       << 1,  5,  0,  0,  6,  2,  0,  0,  3,  0,  0,  0,  4, 20>>,  \* 14
       << 1,  5,  0,  0, 21,  2,  0,  0,  3,  0,  0,  0,  4,  0>>,  \* 15
       << 1, 22,  0,  0,  6,  2,  0,  0,  3,  0,  0,  0,  4,  0>>,  \* 16
       << 1,  5, 28,  0,  6,  2,  0,  0,  3,  0,  0,  0,  4,  0>>,  \* 17
       << 1, 29,  0,  0,  6,  2,  0,  0,  3,  0,  0,  0,  4,  0>>,  \* 18
       << 1, 23,  0,  0,  6,  2,  0,  0,  3,  0,  0,  0,  4,  0>>,  \* 19
       << 1,  5,  0,  0,  6,  2,  0, 24,  3,  0,  0,  0,  4,  0>>,  \* 20
       << 1, 33,  0,  0,  6,  2,  0,  0,  3,  0, 15,  0,  4,  0>>,  \* 21
       << 1, 27,  0,  0,  6,  2,  0,  0,  3,  0, 14,  0,  4,  0>>,  \* 22
       << 1,  5,  0,  0, 31,  2,  0,  0,  3,  0, 14,  0,  4,  0>>,  \* 23
       << 1,  5,  0,  0,  6, 32,  0,  0,  3,  0,  0,  0,  4,  0>>  \* 24
    >>

EMIT_START == 25

\* the table with no state to resume in after a word
EMIT_STATES_NEXT_restart == <<0, 0, 0, 0, 0, 0, 0, 0, 0>>

EMIT_STATES_NEXT == <<5, 1, 5, 0, 5, 0, 6, 2, 5>>

\* 0b00111111100110000111110000
CHARSET_MASK == 16671216

\*             a  b  c  d  e  f  g   h  i   j  k  l  m  n  o  p  q  r  s   t  u  v   w  x  y  z
TOKEN_TABLE == <<0, 0, 0, 0, 1, 8, 13, 7, 10, 0, 0, 0, 0, 4, 0, 0, 0, 2, 12, 5, 9, 11, 6, 3, 0, 0>>

\* the body of the for loop of digits3 for the byte c: the state and the
\* output after it
digits3_step(c, state, out) ==
    IF is_ascii_digit(c)
    THEN [state |-> 0, out |-> Append(out, sub_byte(c, AsciiDigits))]
    ELSE IF ~is_ascii_lowercase(c) THEN [state |-> 0, out |-> out]
    ELSE LET char_idx == sub_byte(c, Alphabet)
         IN  IF (CHARSET_MASK \div (2^char_idx)) % 2 = 0 THEN [state |-> 0, out |-> out]
             ELSE LET token == TOKEN_TABLE[char_idx + 1]
                      next == STATE_TABLE[state + 1][token + 1]
                  IN  IF next >= EMIT_START
                      THEN [state |-> EMIT_STATES_NEXT[next - EMIT_START + 1],
                            out |-> Append(out, next - EMIT_START + 1)]
                      ELSE [state |-> next, out |-> out]

\* the for loop of digits3, from the byte k (from 1) on
RECURSIVE digits3_loop(_, _, _, _)
digits3_loop(line, k, state, out) ==
    IF k > Len(line) THEN out
    ELSE LET r == digits3_step(line[k], state, out)
         IN  digits3_loop(line, k + 1, r.state, r.out)

\* Line::digits3
digits3(line) == digits3_loop(line, 1, 0, <<>>)

\* calibration: Some(first * 10 + last) of the digits, None when there is none
calibration(iter) ==
    IF iter = <<>> THEN None ELSE Some(iter[1] * 10 + iter[Len(iter)])

(* --------------------------------- p03 --------------------------------- *)

\* u32 arithmetic: the value v of an addition or multiplication, which panics
\* with overflow checks and wraps without when it does not fit
U32Max == 2^U32Bits - 1

u32_arith(v, checks) ==
    IF v <= U32Max THEN Ok(v)
    ELSE IF checks THEN Panic ELSE Ok(v % (2^U32Bits))

\* TryFrom<char> for Cell
cell_try_from(value) ==
    IF is_ascii_digit(value) THEN [kind |-> "Digit", n |-> sub_byte(value, AsciiDigits)]
    ELSE IF value = "." THEN [kind |-> "Empty"]
    ELSE [kind |-> "Symbol", c |-> value]

Idle == [kind |-> "Idle"]

Number(accum, ident) == [kind |-> "Number", accum |-> accum, ident |-> ident]

\* the match of from_grid for one cell, at coords: the state, numbers and
\* number_ids after it
from_grid_cell(cell, coords, st, numbers, number_ids, checks) ==
    IF st.kind = "Idle" /\ cell.kind = "Digit"
    THEN LET r == set(number_ids, coords, Some(Len(numbers)))
         IN  IF r.outcome = "panic" THEN Panic
             ELSE Ok([state |-> Number(cell.n, Len(numbers)), numbers |-> numbers,
                      number_ids |-> r.val])
    ELSE IF st.kind = "Idle"
    THEN Ok([state |-> st, numbers |-> numbers, number_ids |-> number_ids])
    ELSE IF cell.kind = "Digit"
    THEN LET m == u32_arith(10 * st.accum, checks)
             a == IF m.outcome = "panic" THEN Panic ELSE u32_arith(m.val + cell.n, checks)
             r == set(number_ids, coords, Some(st.ident))
         IN  IF a.outcome = "panic" \/ r.outcome = "panic" THEN Panic
             ELSE Ok([state |-> Number(a.val, st.ident), numbers |-> numbers,
                      number_ids |-> r.val])
    ELSE IF Len(numbers) # st.ident THEN Panic
    ELSE Ok([state |-> Idle, numbers |-> Append(numbers, st.accum),
             number_ids |-> number_ids])

\* for cell in grid.row_iter(row_idx), from the k-th place the iterator
\* yields; cell.coords() is the coordinates of the place
RECURSIVE from_grid_cells(_, _, _, _, _, _, _)
from_grid_cells(g, places, k, st, numbers, number_ids, checks) ==
    IF k > Len(places) THEN Ok([state |-> st, numbers |-> numbers, number_ids |-> number_ids])
    ELSE LET place == places[k]
             coords == <<place % g.width, place \div g.width>>
             r == from_grid_cell(g.data[place + 1], coords, st, numbers, number_ids, checks)
         IN  IF r.outcome = "panic" THEN Panic
             ELSE from_grid_cells(g, places, k + 1, r.val.state, r.val.numbers,
                                  r.val.number_ids, checks)

\* for row_idx in 0..grid.height(), with the if let that pushes the number a
\* row ends in
RECURSIVE from_grid_rows(_, _, _, _, _)
from_grid_rows(g, row_idx, numbers, number_ids, checks) ==
    IF row_idx >= g.height THEN Ok([numbers |-> numbers, number_ids |-> number_ids])
    ELSE LET it == row_iter(g, row_idx)
             r == IF it.outcome = "panic" THEN Panic
                  ELSE from_grid_cells(g, it.val, 1, Idle, numbers, number_ids, checks)
         IN  IF r.outcome = "panic" THEN Panic
             ELSE from_grid_rows(g, row_idx + 1,
                                 IF r.val.state.kind = "Number"
                                 THEN Append(r.val.numbers, r.val.state.accum)
                                 ELSE r.val.numbers,
                                 r.val.number_ids, checks)

\* NumberMap::from_grid
from_grid(g, checks) == from_grid_rows(g, 0, <<>>, filled_like(g, None).val, checks)

(* --------------------------------- p04 --------------------------------- *)

\* u64 arithmetic: the value v of an addition or subtraction, which panics
\* with overflow checks and wraps without when it does not fit
U64Max == 2^U64Bits - 1

u64_arith(v, checks) ==
    IF v >= 0 /\ v <= U64Max THEN Ok(v)
    ELSE IF checks THEN Panic ELSE Ok(v % (2^U64Bits))

\* a Card is the set of the bits of winning and the set of the bits of numbers
Card(winning, numbers) == [winning |-> winning, numbers |-> numbers]

\* Card::count_matches: (self.winning & self.numbers).count_ones()
count_matches(card) == Cardinality(card.winning \cap card.numbers)

\* the loop of solve2 from card_idx on
RECURSIVE solve2_loop(_, _, _, _, _, _)
solve2_loop(input, card_idx, dupes, expiring, total_cards, checks) ==
    IF card_idx >= Len(input) THEN Ok(total_cards)
    ELSE LET d == u64_arith(dupes - expiring[card_idx + 1], checks)
             t == IF d.outcome = "panic" THEN Panic
                  ELSE u64_arith(total_cards + d.val, checks)
             n == count_matches(input[card_idx + 1])
             copy_end == card_idx + 1 + n
             e == IF d.outcome = "panic" THEN Panic
                  ELSE IF copy_end < Len(expiring)
                  THEN u64_arith(expiring[copy_end + 1] + d.val, checks)
                  ELSE Ok(0)
             dd == IF d.outcome = "panic" THEN Panic
                   ELSE u64_arith(d.val + d.val, checks)
         IN  IF d.outcome = "panic" \/ t.outcome = "panic" THEN Panic
             ELSE IF n = 0
             THEN solve2_loop(input, card_idx + 1, d.val, expiring, t.val, checks)
             ELSE IF e.outcome = "panic" \/ dd.outcome = "panic" THEN Panic
             ELSE solve2_loop(input, card_idx + 1, dd.val,
                              IF copy_end < Len(expiring)
                              THEN [expiring EXCEPT ![copy_end + 1] = e.val]
                              ELSE expiring,
                              t.val, checks)

\* solve2 of p04
solve2(input, checks) ==
    solve2_loop(input, 0, 1, [k \in 1..Len(input) |-> 0], 0, checks)

(* --------------------------------- p05 --------------------------------- *)

min(a, b) == IF a <= b THEN a ELSE b

\* Mappable::offset / offset_mut: self.0 + u
mappable_offset(x, u, checks) == u64_arith(x + u, checks)

\* Mappable::dist_after: self.0 - other.0
dist_after(x, other, checks) == u64_arith(x - other, checks)

\* MapEntry::max_src
max_src(entry, checks) == u64_arith(entry.src + entry.len, checks)

\* ranges.binary_search_by_key(&x, |r| r.src) on ranges sorted by src, all
\* different: Ok(idx) of the range that starts at x, or Err(idx) of the place
\* where one would be inserted
binary_search_by_key(ranges, x) ==
    IF \E k \in 1..Len(ranges) : ranges[k].src = x
    THEN [ok |-> TRUE, idx |-> (CHOOSE k \in 1..Len(ranges) : ranges[k].src = x) - 1]
    ELSE [ok |-> FALSE, idx |-> Cardinality({k \in 1..Len(ranges) : ranges[k].src < x})]

\* Map::map_one
map_one(ranges, x, checks) ==
    LET found == binary_search_by_key(ranges, x)
    IN  IF found.ok THEN Ok(ranges[found.idx + 1].dst)
        ELSE IF found.idx = 0 THEN Ok(x)
        ELSE LET range == ranges[found.idx]
                 delta == u64_arith(x - range.src, checks)
             IN  IF delta.outcome = "panic" THEN Panic
                 ELSE IF delta.val < range.len
                 THEN u64_arith(range.dst + delta.val, checks)
                 ELSE Ok(x)

\* the state the iterator of map_range captures
RangeIter(current_src, remaining, current_idx) ==
    [current_src |-> current_src, remaining |-> remaining, current_idx |-> current_idx]

\* the iterator emits out = (d, n) after moving current_src by n, taking n
\* off remaining and moving current_idx by step
emit(it, d, n, step, checks) ==
    LET r == u64_arith(it.remaining - n, checks)
        c == mappable_offset(it.current_src, n, checks)
    IN  IF r.outcome = "panic" \/ c.outcome = "panic" THEN Panic
        ELSE Ok([item |-> Some(<<d, n>>),
                 it |-> RangeIter(c.val, r.val, it.current_idx + step)])

\* Some((current_src.direct(), take(&mut remaining)))
emit_rest(it) ==
    Ok([item |-> Some(<<it.current_src, it.remaining>>),
        it |-> RangeIter(it.current_src, 0, it.current_idx)])

\* the closure of map_range: one call of next() on the iterator it returns
map_range_next(ranges, it, checks) ==
    IF it.remaining = 0 THEN Ok([item |-> None, it |-> it])
    ELSE IF it.current_idx = Len(ranges) THEN emit_rest(it)
    ELSE
    LET range == ranges[it.current_idx + 1]
        top == max_src(range, checks)
    IN  IF range.src > it.current_src
        THEN LET dist == dist_after(range.src, it.current_src, checks)
             IN  IF dist.outcome = "panic" THEN Panic
                 ELSE emit(it, it.current_src, min(dist.val, it.remaining), 0, checks)
        ELSE IF top.outcome = "panic" THEN Panic
        ELSE IF it.current_src >= top.val
        THEN IF it.current_idx + 1 < Len(ranges)
             THEN LET next == ranges[it.current_idx + 2]
                      end == mappable_offset(it.current_src, it.remaining, checks)
                      dist == dist_after(next.src, it.current_src, checks)
                  IN  IF end.outcome = "panic" THEN Panic
                      ELSE IF next.src >= end.val THEN emit_rest(it)
                      ELSE IF dist.outcome = "panic" THEN Panic
                      ELSE emit(it, it.current_src, min(dist.val, it.remaining), 1, checks)
             ELSE emit_rest(it)
        ELSE IF ~(it.current_src >= range.src) THEN Panic
        ELSE LET off == dist_after(it.current_src, range.src, checks)
                 room == IF off.outcome = "panic" THEN Panic
                         ELSE u64_arith(range.len - off.val, checks)
                 d == IF off.outcome = "panic" THEN Panic
                      ELSE mappable_offset(range.dst, off.val, checks)
             IN  IF off.outcome = "panic" \/ room.outcome = "panic" \/ d.outcome = "panic"
                 THEN Panic
                 ELSE emit(it, d.val, min(it.remaining, room.val), 1, checks)

\* .collect::<Vec<_>>() of the iterator: the pieces it emits until None
RECURSIVE collect(_, _, _, _)
collect(ranges, it, out, checks) ==
    LET r == map_range_next(ranges, it, checks)
    IN  IF r.outcome = "panic" THEN Panic
        ELSE IF r.val.item = None THEN Ok(out)
        ELSE collect(ranges, r.val.it, Append(out, r.val.item[1]), checks)

\* Map::map_range, collected
map_range(ranges, range, checks) ==
    LET found == binary_search_by_key(ranges, range[1])
        start_idx == IF found.ok THEN found.idx
                     ELSE IF found.idx = 0 THEN 0
                     ELSE found.idx - 1
    IN  collect(ranges, RangeIter(range[1], range[2], start_idx), <<>>, checks)

(* ------------------------------ the program ---------------------------- *)

\* res is the last call: its name, its arguments, its outcome, what it
\* returned, and the grid the program held when it made the call (before).
\* A panic is fatal: nothing runs after it.  walk is the walk
\* iterator the program is stepping, if any: <<>> or <<the iterator>>; the
\* program drops it when it makes any other call.  hist is what the program
\* has seen of that walk: the call that made it, the point it was made at and
\* the items its steps returned.  kept is the point or walk iterator the
\* program keeps in a local across its calls, if any.
Res(op, args, r) ==
    [op |-> op, args |-> args, outcome |-> r.outcome, val |-> r.val, before |-> grid]

Alive == res.outcome # "panic"

\* the grid of a program whose constructor failed: it holds none
NoGrid == MkGrid(<<>>, 0, 0)

NoWalk == <<>>

NoHist == [op |-> "", origin |-> None, items |-> <<>>]

NoLoan == <<>>

\* a call through `&mut self` (get_mut, set, fill, row_iter_mut, col_iter_mut)
\* borrows the grid exclusively: the shared borrow `grid: &'grid Grid<T>` of a
\* point or iterator k the program keeps has to be over before the call, so
\* the program holds none after it
borrow_mut_aliased(k) ==
    IF k = NoLoan THEN k ELSE <<[k[1] EXCEPT !.mutated = TRUE]>>

borrow_mut(k) == NoLoan

SeqsUpTo(S, n) == UNION {[1..k -> S] : k \in 0..n}

\* the coordinates the calls are made with: every column and row of the grid,
\* the first one outside it, and the largest usize
Xs(g) == 0..g.width \cup {UsizeMax}
Ys(g) == 0..g.height \cup {UsizeMax}

\* the offsets the calls are made with
Deltas == (-MaxDelta..MaxDelta) \cup {IsizeMin, IsizeMax}

Init ==
    /\ grid = NoGrid
    /\ res = [op |-> "init", args |-> <<>>, outcome |-> "ok", val |-> <<>>,
              before |-> NoGrid]
    /\ walk = NoWalk
    /\ hist = NoHist
    /\ kept = NoLoan

\* the program has not constructed its grid yet.  The constructors below
\* that take no grid run from here: what they return does not depend on the
\* state they are called in.
Start == res.op = "init"

\* a constructor returned r: the program holds the new grid, or none
Construct(op, args, r) ==
    /\ grid' = IF r.outcome = "ok" THEN r.val ELSE NoGrid
    /\ res' = [op |-> op, args |-> args, outcome |-> r.outcome, val |-> <<>>,
               before |-> grid]
    /\ walk' = NoWalk
    /\ hist' = NoHist
    /\ kept' = NoLoan

FromData ==
    /\ Start
    /\ \E data \in SeqsUpTo(Vals, MaxCells), width \in 0..MaxW :
          Construct("from_data", <<data, width>>, from_data(data, width))

FromFn(cap) ==
    /\ Start
    /\ \E width \in 0..MaxW, height \in 0..MaxH, f \in Funcs :
          /\ width * height <= cap
          /\ Construct("from_fn", <<width, height, f>>, from_fn(width, height, f))

Filled ==
    /\ Start
    /\ \E width \in 0..MaxW, height \in 0..MaxH, val \in Vals :
          /\ width * height <= MaxCells
          /\ Construct("filled", <<width, height, val>>, filled(width, height, val))

FilledLike ==
    /\ Alive
    /\ \E val \in Vals : Construct("filled_like", <<grid, val>>, filled_like(grid, val))

Map ==
    /\ Alive
    /\ \E f \in MapFuncs : Construct("map", <<grid, f>>, map(grid, f))

LoadGrid ==
    /\ Start
    /\ \E input \in SeqsUpTo(Chars, MaxInput) :
          Construct("load_grid", <<input>>, load_grid(input))

\* a call that returns a new value and leaves the grid alone
Query(op, args, r) ==
    /\ res' = Res(op, args, r)
    /\ walk' = NoWalk
    /\ hist' = NoHist
    /\ UNCHANGED <<grid, kept>>

\* a call that changes the grid in place: r holds the grid after it
Mutate(op, args, r) ==
    /\ grid' = IF r.outcome = "ok" THEN r.val ELSE grid
    /\ res' = [op |-> op, args |-> args, outcome |-> r.outcome, val |-> <<>>,
               before |-> grid]
    /\ walk' = NoWalk
    /\ hist' = NoHist
    /\ kept' = borrow_mut(kept)

Padded ==
    /\ Alive
    /\ \E val \in Vals, n \in 0..MaxPad :
          Query("padded", <<val, n>>, padded(grid, val, n))

Get ==
    /\ Alive
    /\ \E x \in Xs(grid), y \in Ys(grid) : Query("get", <<x, y>>, get(grid, <<x, y>>))

TryGet ==
    /\ Alive
    /\ \E x \in Xs(grid), y \in Ys(grid) :
          Query("try_get", <<x, y>>, try_get(grid, <<x, y>>))

\* get_mut and a write of val through the reference it returned
GetMut ==
    /\ Alive
    /\ \E x \in Xs(grid), y \in Ys(grid), val \in Vals :
          LET r == get_mut(grid, <<x, y>>)
          IN  Mutate("get_mut", <<x, y, val>>,
                     IF r.outcome = "panic" THEN Panic ELSE Ok(write(grid, r.val, val)))

Set ==
    /\ Alive
    /\ \E x \in Xs(grid), y \in Ys(grid), val \in Vals :
          Mutate("set", <<x, y, val>>, set(grid, <<x, y>>, val))

Fill ==
    /\ Alive
    /\ \E val \in Vals : Mutate("fill", <<val>>, fill(grid, val))

\* row_iter(row), or row_iter(row).rev()
RowIter ==
    /\ Alive
    /\ \E row \in Ys(grid), reversed \in BOOLEAN :
          LET r == row_iter(grid, row)
          IN  Query("row_iter", <<row, reversed>>,
                    IF r.outcome = "ok" /\ reversed THEN Ok(rev(r.val)) ELSE r)

\* col_iter(col), or col_iter(col).rev(), in a build with or without
\* overflow checks
ColIter ==
    /\ Alive
    /\ \E col \in Xs(grid), reversed \in BOOLEAN, checks \in BOOLEAN :
          LET r == col_iter(grid, col, checks)
          IN  Query("col_iter", <<col, reversed>>,
                    IF r.outcome = "ok" /\ reversed THEN Ok(rev(r.val)) ELSE r)

\* row_iter_mut(row) and a write of val through the k-th reference it yields
\* (k = 0: no write)
RowIterMut ==
    /\ Alive
    /\ \E row \in Ys(grid), val \in Vals :
          LET r == row_iter(grid, row)
          IN  /\ res' = Res("row_iter_mut", <<row>>, r)
              /\ walk' = NoWalk
              /\ hist' = NoHist
              /\ kept' = borrow_mut(kept)
              /\ \E k \in 0..(IF r.outcome = "ok" THEN Len(r.val) ELSE 0) :
                    grid' = IF k = 0 THEN grid ELSE write(grid, r.val[k], val)

\* col_iter_mut(col) and a write of val through the k-th reference it yields
ColIterMut ==
    /\ Alive
    /\ \E col \in Xs(grid), val \in Vals, checks \in BOOLEAN :
          LET r == col_iter(grid, col, checks)
          IN  /\ res' = Res("col_iter_mut", <<col>>, r)
              /\ walk' = NoWalk
              /\ hist' = NoHist
              /\ kept' = borrow_mut(kept)
              /\ \E k \in 0..(IF r.outcome = "ok" THEN Len(r.val) ELSE 0) :
                    grid' = IF k = 0 THEN grid ELSE write(grid, r.val[k], val)

\* point(pos): res.val is the sequence of the points returned
Point ==
    /\ Alive
    /\ \E x \in Xs(grid), y \in Ys(grid) :
          LET r == point(grid, <<x, y>>)
          IN  Query("point", <<x, y>>, IF r.outcome = "ok" THEN Ok(<<r.val>>) ELSE r)

Points ==
    /\ Alive
    /\ Query("points", <<>>, points(grid))

Find ==
    /\ Alive
    /\ \E val \in Vals : Query("find", <<val>>, find(grid, val))

\* the points the program holds after the last call: the ones it returned,
\* and the one a navigation call started from (a GridPoint is Copy)
PointOps == {"point", "points", "find", "offset", "left", "right", "up", "down",
             "neighbors", "walk_row_next", "walk_column_next"}
NavOps == {"offset", "left", "right", "up", "down", "neighbors",
           "walk_left", "walk_right", "walk_up", "walk_down",
           "walk_row_next", "walk_column_next"}

Held ==
    (IF res.op \in PointOps /\ res.outcome = "ok"
     THEN {res.val[k] : k \in 1..Len(res.val)} ELSE {})
    \cup (IF res.op \in NavOps THEN {res.args[1]} ELSE {})

Offset ==
    /\ Alive
    /\ \E p \in Held, dx \in Deltas, dy \in Deltas, checks \in BOOLEAN :
          Query("offset", <<p, <<dx, dy>>, checks>>, offset(grid, p, <<dx, dy>>, checks))

Left ==
    /\ Alive
    /\ \E p \in Held : Query("left", <<p>>, left(grid, p))

Right ==
    /\ Alive
    /\ \E p \in Held, checks \in BOOLEAN : Query("right", <<p>>, right(grid, p, checks))

Up ==
    /\ Alive
    /\ \E p \in Held : Query("up", <<p>>, up(grid, p))

Down ==
    /\ Alive
    /\ \E p \in Held, checks \in BOOLEAN : Query("down", <<p>>, down(grid, p, checks))

Neighbors ==
    /\ Alive
    /\ \E p \in Held, checks \in BOOLEAN :
          Query("neighbors", <<p>>, neighbors(grid, p, checks))

\* p.walk_left() and the like: the program holds a new walk iterator w
StartWalk(op, p, w) ==
    /\ res' = [op |-> op, args |-> <<p>>, outcome |-> "ok", val |-> <<>>,
               before |-> grid]
    /\ walk' = <<w>>
    /\ hist' = [op |-> op, origin |-> Some(p), items |-> <<>>]
    /\ UNCHANGED <<grid, kept>>

WalkLeft ==
    /\ Alive
    /\ \E p \in Held : StartWalk("walk_left", p, walk_left(p))

WalkRight ==
    /\ Alive
    /\ \E p \in Held : StartWalk("walk_right", p, walk_right(p))

WalkUp ==
    /\ Alive
    /\ \E p \in Held : StartWalk("walk_up", p, walk_up(p))

WalkDown ==
    /\ Alive
    /\ \E p \in Held : StartWalk("walk_down", p, walk_down(p))

\* a step of the walk iterator returned r
StepWalk(op, r) ==
    /\ res' = [op |-> op, args |-> <<walk[1].point>>, outcome |-> r.outcome,
               val |-> IF r.outcome = "ok" THEN r.val.item ELSE <<>>,
               before |-> grid]
    /\ walk' = IF r.outcome = "ok" THEN <<r.val.walk>> ELSE walk
    /\ hist' = IF r.outcome = "ok"
               THEN [hist EXCEPT !.items = Append(@, r.val.item)] ELSE hist
    /\ UNCHANGED <<grid, kept>>

WalkRowNext ==
    /\ Alive
    /\ walk # NoWalk
    /\ "right" \in DOMAIN walk[1]
    /\ Len(hist.items) < MaxSteps
    /\ \E checks \in BOOLEAN :
          StepWalk("walk_row_next", walk_row_next(grid, walk[1], checks))

WalkColumnNext ==
    /\ Alive
    /\ walk # NoWalk
    /\ "down" \in DOMAIN walk[1]
    /\ Len(hist.items) < MaxSteps
    /\ \E checks \in BOOLEAN :
          StepWalk("walk_column_next", walk_column_next(grid, walk[1], checks))

\* let kept = p: the program stores a point it holds in a local (a GridPoint
\* is Copy); mutated says whether a `&mut self` call was made since
KeepPoint ==
    /\ Alive
    /\ \E p \in Held : kept' = <<[ref |-> p, mutated |-> FALSE]>>
    /\ UNCHANGED <<grid, res, walk, hist>>

\* let kept = walk: the program moves the walk iterator it is stepping into
\* a local
KeepWalk ==
    /\ Alive
    /\ walk # NoWalk
    /\ kept' = <<[ref |-> walk[1], mutated |-> FALSE]>>
    /\ walk' = NoWalk
    /\ hist' = NoHist
    /\ UNCHANGED <<grid, res>>

\* *kept: the program dereferences the point it stored
DerefKept ==
    /\ Alive
    /\ kept # NoLoan
    /\ "index" \in DOMAIN kept[1].ref
    /\ Query("deref", <<kept[1].ref, kept[1].mutated>>, deref(grid, kept[1].ref))

\* kept.next(): the program steps the walk iterator it stored
StepKept ==
    /\ Alive
    /\ kept # NoLoan
    /\ "point" \in DOMAIN kept[1].ref
    /\ \E checks \in BOOLEAN :
          LET w == kept[1].ref
              r == IF "right" \in DOMAIN w THEN walk_row_next(grid, w, checks)
                   ELSE walk_column_next(grid, w, checks)
          IN  /\ res' = [op |-> "next", args |-> <<w.point, kept[1].mutated>>,
                         outcome |-> r.outcome,
                         val |-> IF r.outcome = "ok" THEN r.val.item ELSE <<>>,
                         before |-> grid]
              /\ kept' = IF r.outcome = "ok"
                         THEN <<[kept[1] EXCEPT !.ref = r.val.walk]>> ELSE kept
    /\ walk' = NoWalk
    /\ hist' = NoHist
    /\ UNCHANGED grid

\* construction, access and mutation of a grid, cell by cell
Next ==
    \/ FromData
    \/ FromFn(MaxCells)
    \/ Filled
    \/ FilledLike
    \/ Map
    \/ LoadGrid
    \/ Padded
    \/ Get
    \/ TryGet
    \/ GetMut
    \/ Set
    \/ Fill
    \/ RowIter
    \/ ColIter
    \/ RowIterMut
    \/ ColIterMut
    \/ Point
    \/ Points
    \/ Find

Spec == Init /\ [][Next]_vars

\* navigation by points over the grids from_fn builds
NextNav ==
    \/ FromFn(MaxNavDim * MaxNavDim)
    \/ Point
    \/ Points
    \/ Find
    \/ Offset
    \/ Left
    \/ Right
    \/ Up
    \/ Down
    \/ Neighbors
    \/ WalkLeft
    \/ WalkRight
    \/ WalkUp
    \/ WalkDown
    \/ WalkRowNext
    \/ WalkColumnNext

SpecNav == Init /\ [][NextNav]_vars

\* mutation of a grid while the program keeps a point or a walk iterator of it
NextBorrow ==
    \/ FromFn(MaxBorrowCells)
    \/ Point
    \/ KeepPoint
    \/ DerefKept
    \/ WalkRight
    \/ WalkUp
    \/ KeepWalk
    \/ StepKept
    \/ GetMut
    \/ Set
    \/ Fill
    \/ RowIterMut
    \/ ColIterMut

SpecBorrow == Init /\ [][NextBorrow]_vars

\* the bytes the lines of p01 are made of: the bytes of the number words, two
\* digits, a lowercase letter of no number word and a byte that is no letter
LineBytes ==
    {"e", "f", "g", "h", "i", "n", "o", "r", "s", "t", "u", "v", "w", "x",
     "0", "7", "z", "-"}

\* the pieces of a line: a prefix of a number word (the words included) or a
\* single byte
LineTokens ==
    UNION {{SubSeq(DIGITS[k][1], 1, n) : n \in 1..Len(DIGITS[k][1])} : k \in 1..Len(DIGITS)}
        \cup {<<c>> : c \in LineBytes}

\* the lines of at most n pieces
RECURSIVE LinesUpTo(_)
LinesUpTo(n) ==
    IF n = 0 THEN {<<>>}
    ELSE LET shorter == LinesUpTo(n - 1)
         IN  shorter \cup {l \o t : l \in shorter, t \in LineTokens}

Digits2 ==
    /\ Start
    /\ \E line \in LinesUpTo(MaxTokens) : Query("digits2", <<line>>, Ok(digits2(line)))

Digits3 ==
    /\ Start
    /\ \E line \in LinesUpTo(MaxTokens) : Query("digits3", <<line>>, Ok(digits3(line)))

\* calibration of the digits the last call returned
Calibration ==
    /\ res.op \in {"digits2", "digits3"}
    /\ Query("calibration", <<res.op, res.args[1]>>, Ok(calibration(res.val)))

\* p01: the digits of a line and its calibration value
NextLines ==
    \/ Digits2
    \/ Digits3
    \/ Calibration

SpecLines == Init /\ [][NextLines]_vars

\* the characters of the grids of p03: an empty cell, a symbol, two digits
NumChars == {".", "*", "1", "9"}

\* load_grid::<Cell> returned the grid of an input of height rows of width
\* characters each
LoadCells ==
    /\ Start
    /\ \E width \in 1..MaxW, height \in 1..MaxH :
          /\ width * height <= MaxNumCells
          /\ \E chars \in [1..(width * height) -> NumChars] :
                Construct("load_cells", <<chars, width>>,
                          from_data([k \in 1..Len(chars) |-> cell_try_from(chars[k])], width))

\* NumberMap::from_grid(&grid) in a build with or without overflow checks
FromGrid ==
    /\ res.op = "load_cells"
    /\ \E checks \in BOOLEAN : Query("from_grid", <<checks>>, from_grid(grid, checks))

\* p03: the number map of a grid of cells
NextNumbers ==
    \/ LoadCells
    \/ FromGrid

SpecNumbers == Init /\ [][NextNumbers]_vars

\* the cards of p04: every number up to MaxMatches wins, and the card has the
\* first n of them
Cards == {Card(1..MaxMatches, 1..n) : n \in 0..MaxMatches}

\* the lists of at most n cards
RECURSIVE CardsUpTo(_)
CardsUpTo(n) ==
    IF n = 0 THEN {<<>>}
    ELSE LET shorter == CardsUpTo(n - 1)
         IN  shorter \cup {Append(l, c) : l \in shorter, c \in Cards}

\* solve2(&input) of p04 in a build with or without overflow checks
Solve2 ==
    /\ Start
    /\ \E input \in CardsUpTo(MaxCards), checks \in BOOLEAN :
          Query("solve2", <<input, checks>>, solve2(input, checks))

\* p04: the total of a list of cards
NextCards ==
    \/ Solve2

SpecCards == Init /\ [][NextCards]_vars

\* the values of p05: the smallest and the largest of u64
SeedVals == 0..MaxSrc \cup {U64Max - 1, U64Max}

\* the ranges of a Map: of positive length, with source and destination
\* inside u64
MapEntries ==
    {e \in [src : SeedVals, dst : SeedVals, len : 1..MaxLen] :
        e.src + e.len <= U64Max + 1 /\ e.dst + e.len <= U64Max + 1}

\* the Maps of at most n ranges: sorted by src (parse_map sorts them) and not
\* overlapping
RECURSIVE MapsUpTo(_)
MapsUpTo(n) ==
    IF n = 0 THEN {<<>>}
    ELSE LET shorter == MapsUpTo(n - 1)
             longest == {m \in shorter : Len(m) = n - 1}
         IN  shorter \cup
             {Append(p[1], p[2]) :
                 p \in {q \in longest \X MapEntries :
                           \/ q[1] = <<>>
                           \/ q[1][n - 1].src + q[1][n - 1].len <= q[2].src}}

\* the source ranges (start, len): of positive length, inside u64
SeedRanges ==
    {r \in SeedVals \X (1..MaxLen) : r[1] + r[2] <= U64Max + 1}

\* map.map_one(x) in a build with or without overflow checks
MapOne ==
    /\ Start
    /\ \E ranges \in MapsUpTo(MaxRanges), x \in SeedVals, checks \in BOOLEAN :
          Query("map_one", <<ranges, x, checks>>, map_one(ranges, x, checks))

\* map.map_range(range).collect() in a build with or without overflow checks
MapRange ==
    /\ Start
    /\ \E ranges \in MapsUpTo(MaxRanges), range \in SeedRanges, checks \in BOOLEAN :
          Query("map_range", <<ranges, range, checks>>, map_range(ranges, range, checks))

\* p05: a value and a range through a Map
NextSeeds ==
    \/ MapOne
    \/ MapRange

SpecSeeds == Init /\ [][NextSeeds]_vars

(* -------------------------------- claims -------------------------------- *)

\* the cell (x, y) of a grid is data[y*width + x]
Cell(g, x, y) == g.data[y * g.width + x + 1]

GridOk(g) == Len(g.data) = g.width * g.height

PointOk(g, p) ==
    /\ p.index = p.coords[2] * g.width + p.coords[1]
    /\ 0 <= p.coords[1] /\ p.coords[1] < g.width
    /\ 0 <= p.coords[2] /\ p.coords[2] < g.height

\* C2: every GridPoint the program holds (returned by points, point, find,
\* offset, left, right, up, down, neighbors or a step of a walk, or kept
\* inside a walk iterator) has index == y*width + x, 0 <= x < width and
\* 0 <= y < height; a call that cannot return such a point returns none or
\* panics.
C2_PointsInsideGrid ==
    /\ \A p \in Held : PointOk(grid, p)
    /\ walk # NoWalk => PointOk(grid, walk[1].point)
    /\ res.op \in {"offset", "left", "right", "up", "down",
                   "walk_row_next", "walk_column_next"} => Len(res.val) <= 1

\* C2 witness: a walk to the right has stepped to the last cell of the middle
\* row of a 3 x 3 grid.
C2_Witness ==
    /\ res.op = "walk_row_next" /\ res.outcome = "ok"
    /\ grid.width = 3 /\ grid.height = 3
    /\ res.val = <<MkPoint(5, <<2, 1>>)>>
    /\ walk = <<[right |-> TRUE, point |-> MkPoint(5, <<2, 1>>)]>>

\* C3: offset((dx, dy)) at (x, y) never panics; it returns the point at
\* (x+dx, y+dy), with index (y+dy)*width + (x+dx), when 0 <= x+dx < width and
\* 0 <= y+dy < height, and None otherwise, for dx and dy of either sign.
C3_OffsetTotal ==
    res.op = "offset" =>
        LET p == res.args[1]
            nx == p.coords[1] + res.args[2][1]
            ny == p.coords[2] + res.args[2][2]
        IN  /\ res.outcome = "ok"
            /\ res.val = IF 0 <= nx /\ nx < grid.width /\ 0 <= ny /\ ny < grid.height
                         THEN Some(MkPoint(ny * grid.width + nx, <<nx, ny>>))
                         ELSE None

\* the places of column col, top to bottom
ColumnPlaces(g, col) == [k \in 1..g.height |-> (k - 1) * g.width + col]

\* the places of row row, left to right
RowPlaces(g, row) == [k \in 1..g.width |-> row * g.width + (k - 1)]

\* C4: for every grid and every col < width, col_iter(col) and
\* col_iter_mut(col) yield exactly height references, to the cells (col, 0),
\* ..., (col, height-1) in this order, and col_iter(col).rev() yields them in
\* the opposite order.
C4_ColIterYieldsColumn ==
    (res.op \in {"col_iter", "col_iter_mut"} /\ res.args[1] < grid.width) =>
        /\ res.outcome = "ok"
        /\ Len(res.val) = grid.height
        /\ res.val = IF res.op = "col_iter" /\ res.args[2]
                     THEN rev(ColumnPlaces(grid, res.args[1]))
                     ELSE ColumnPlaces(grid, res.args[1])

\* C5: for every grid and every row < height, row_iter(row) and
\* row_iter_mut(row) yield exactly width references, to the cells (0, row),
\* ..., (width-1, row) in this order (the k-th reads what get((k, row))
\* reads), and row_iter(row).rev() yields them in the opposite order.
C5_RowIterYieldsRow ==
    (res.op \in {"row_iter", "row_iter_mut"} /\ res.args[1] < grid.height) =>
        LET fwd == IF res.op = "row_iter" /\ res.args[2] THEN rev(res.val) ELSE res.val
        IN  /\ res.outcome = "ok"
            /\ Len(res.val) = grid.width
            /\ fwd = RowPlaces(grid, res.args[1])
            /\ \A k \in 1..Len(fwd) :
                  /\ fwd[k] < Len(grid.data)
                  /\ get(grid, <<k - 1, res.args[1]>>) = Ok(grid.data[fwd[k] + 1])

\* C5 witness: row_iter(1).rev() on a 3 x 2 grid has yielded the places 5, 4, 3.
C5_Witness ==
    /\ res.op = "row_iter" /\ res.outcome = "ok"
    /\ res.args = <<1, TRUE>>
    /\ grid.width = 3 /\ grid.height = 2
    /\ res.val = <<5, 4, 3>>

\* n is k * w for some k
Divisible(n, w) == \E k \in 0..n : n = k * w

\* what C6 says of a from_data(data, width) that returned
FromDataGrid(data, width) ==
    /\ res.outcome = "ok"
    /\ grid.width = width
    /\ grid.height * width = Len(data)
    /\ grid.data = data
    /\ \A x \in 0..(grid.width - 1), y \in 0..(grid.height - 1) :
          get(grid, <<x, y>>) = Ok(data[y * width + x + 1])

OutsideCall ==
    \/ /\ res.op \in {"get", "get_mut", "set", "point"}
       /\ ~(res.args[1] < res.before.width /\ res.args[2] < res.before.height)
    \/ /\ res.op \in {"row_iter", "row_iter_mut"}
       /\ ~(res.args[1] < res.before.height)
    \/ /\ res.op \in {"col_iter", "col_iter_mut"}
       /\ ~(res.args[1] < res.before.width)

\* C7: get, get_mut, set and point with x >= width or y >= height, row_iter
\* and row_iter_mut with row >= height, col_iter and col_iter_mut with
\* col >= width panic: they return no cell, and the grid is as it was.
C7_OutsideCallsPanic ==
    OutsideCall => (res.outcome = "panic" /\ grid = res.before)

\* C7 witness: set((3, 0), v) has panicked on a 3 x 2 grid.
C7_Witness ==
    /\ res.op = "set" /\ res.outcome = "panic"
    /\ res.args[1] = 3 /\ res.args[2] = 0
    /\ grid.width = 3 /\ grid.height = 2

\* C8: try_get((x, y)) never panics; it returns None exactly when x >= width
\* or y >= height, and otherwise Some of the value get((x, y)) returns.
C8_TryGet ==
    res.op = "try_get" =>
        LET pos == <<res.args[1], res.args[2]>>
        IN  /\ res.outcome = "ok"
            /\ (res.val = None) <=> (pos[1] >= grid.width \/ pos[2] >= grid.height)
            /\ res.val # None =>
                  /\ get(grid, pos).outcome = "ok"
                  /\ res.val = Some(get(grid, pos).val)
                  /\ res.val = Some(Cell(grid, pos[1], pos[2]))

\* C8 witness: try_get((1, 1)) has returned Some(true) on a grid whose cell
\* (0, 1) is false.
C8_Witness ==
    /\ res.op = "try_get" /\ res.args = <<1, 1>>
    /\ res.val = Some(TRUE)
    /\ grid.width = 2 /\ grid.height = 2 /\ ~Cell(grid, 0, 1)

\* what C9 says of the grid q that padded(val, n) returns for g
PaddedOk(g, q, val, n) ==
    /\ q.width = g.width + 2 * n
    /\ q.height = g.height + 2 * n
    /\ Len(q.data) = q.width * q.height
    /\ \A x \in 0..(q.width - 1), y \in 0..(q.height - 1) :
          Cell(q, x, y) =
              IF n <= x /\ x < n + g.width /\ n <= y /\ y < n + g.height
              THEN Cell(g, x - n, y - n)
              ELSE val
    /\ n = 0 => q = g

\* C9: padded(val, n) on a w x h grid returns a (w+2n) x (h+2n) grid whose
\* cell (x+n, y+n) is the source's cell (x, y) and whose other cells are val;
\* the source grid is as it was; padded(val, 0) returns an equal grid.
C9_Padded ==
    res.op = "padded" =>
        /\ res.outcome = "ok"
        /\ grid = res.before
        /\ PaddedOk(res.before, res.val, res.args[1], res.args[2])

\* C9 witness: padded(false, 1) has returned for a 2 x 3 grid whose cells
\* (0, 0) and (1, 2) are true and whose cell (1, 0) is false.
C9_Witness ==
    /\ res.op = "padded" /\ res.outcome = "ok"
    /\ res.args = <<FALSE, 1>>
    /\ grid.width = 2 /\ grid.height = 3
    /\ Cell(grid, 0, 0) /\ Cell(grid, 1, 2) /\ ~Cell(grid, 1, 0)

\* the eight compass neighbours of (x, y): NW, N, NE, W, E, SW, S, SE
Compass(x, y) ==
    << <<x - 1, y - 1>>, <<x, y - 1>>, <<x + 1, y - 1>>,
       <<x - 1, y>>,                   <<x + 1, y>>,
       <<x - 1, y + 1>>, <<x, y + 1>>, <<x + 1, y + 1>> >>

\* C10: neighbors() yields the compass neighbours of its point that lie in
\* the grid, each once, in the order NW, N, NE, W, E, SW, S, SE: 3 on a corner
\* of an n x n grid (n >= 2), 8 on an interior cell, 0 on a 1 x 1 grid.
C10_Neighbors ==
    res.op = "neighbors" =>
        LET p == res.args[1]
            x == p.coords[1]
            y == p.coords[2]
            inside == SelectSeq(Compass(x, y),
                                LAMBDA c : /\ 0 <= c[1] /\ c[1] < grid.width
                                           /\ 0 <= c[2] /\ c[2] < grid.height)
        IN  /\ res.outcome = "ok"
            /\ res.val = [k \in 1..Len(inside) |->
                             MkPoint(inside[k][2] * grid.width + inside[k][1], inside[k])]
            /\ \A i, j \in 1..Len(res.val) : res.val[i] = res.val[j] => i = j
            /\ (grid.width = grid.height /\ grid.width >= 2
                /\ x \in {0, grid.width - 1} /\ y \in {0, grid.height - 1})
                  => Len(res.val) = 3
            /\ (0 < x /\ x < grid.width - 1 /\ 0 < y /\ y < grid.height - 1)
                  => Len(res.val) = 8
            /\ (grid.width = 1 /\ grid.height = 1) => Len(res.val) = 0

\* C10 witness: neighbors() has yielded 8 points at the centre of a 3 x 3 grid.
C10_Witness ==
    /\ res.op = "neighbors" /\ res.outcome = "ok"
    /\ grid.width = 3 /\ grid.height = 3
    /\ res.args[1] = MkPoint(4, <<1, 1>>)
    /\ Len(res.val) = 8

\* the k-th point of a walk made by op at the point o
WalkTarget(g, op, o, k) ==
    LET x == o.coords[1]
        y == o.coords[2]
        c == CASE op = "walk_left" -> <<x - k, y>>
               [] op = "walk_right" -> <<x + k, y>>
               [] op = "walk_up" -> <<x, y - k>>
               [] OTHER -> <<x, y + k>>
    IN  MkPoint(c[2] * g.width + c[1], c)

\* the number of cells between o and the edge a walk made by op leads to
WalkLength(g, op, o) ==
    CASE op = "walk_left" -> o.coords[1]
      [] op = "walk_right" -> g.width - 1 - o.coords[1]
      [] op = "walk_up" -> o.coords[2]
      [] OTHER -> g.height - 1 - o.coords[2]

\* C11: the steps of a walk made at (x, y) return (x-1, y), ..., (0, y) for
\* walk_left, (x+1, y), ..., (width-1, y) for walk_right, (x, y-1), ..., (x, 0)
\* for walk_up, (x, y+1), ..., (x, height-1) for walk_down, and None from then
\* on: no step panics, the origin is never returned, at most width-1 (resp.
\* height-1) points are returned, and no step returns a point after a step
\* returned None.
C11_WalksReachTheEdge ==
    /\ res.op \in {"walk_row_next", "walk_column_next"} => res.outcome = "ok"
    /\ hist.origin # None =>
          LET o == hist.origin[1]
              n == WalkLength(grid, hist.op, o)
              items == hist.items
          IN  /\ n <= (IF hist.op \in {"walk_left", "walk_right"}
                       THEN grid.width - 1 ELSE grid.height - 1)
              /\ \A k \in 1..Len(items) :
                    /\ items[k] = IF k <= n THEN Some(WalkTarget(grid, hist.op, o, k))
                                  ELSE None
                    /\ items[k] # Some(o)
                    /\ \A j \in 1..k : items[j] = None => items[k] = None

\* C11 witness: a walk_left made at (2, 1) of a 3 x 3 grid has returned
\* (1, 1), (0, 1), None and None.
C11_Witness ==
    /\ grid.width = 3 /\ grid.height = 3
    /\ hist.op = "walk_left"
    /\ hist.origin = Some(MkPoint(5, <<2, 1>>))
    /\ hist.items = <<Some(MkPoint(4, <<1, 1>>)), Some(MkPoint(3, <<0, 1>>)), None, None>>
    /\ res.op = "walk_row_next" /\ res.val = None

\* C12: when p.offset((dx, dy)) returns a point q, q.offset((-dx, -dy)) returns
\* a point with the coordinates and the index of p.
C12_OffsetRoundTrip ==
    (res.op = "offset" /\ res.outcome = "ok" /\ res.val # None) =>
        LET p == res.args[1]
            d == res.args[2]
            q == res.val[1]
        IN  \A checks \in BOOLEAN :
                offset(grid, q, <<-d[1], -d[2]>>, checks) = Ok(Some(p))

\* C12 witness: offset((-2, -1)) at (2, 2) of a 3 x 3 grid has returned (0, 1).
C12_Witness ==
    /\ res.op = "offset" /\ res.outcome = "ok"
    /\ grid.width = 3 /\ grid.height = 3
    /\ res.args[1] = MkPoint(8, <<2, 2>>)
    /\ res.args[2] = <<-2, -1>>
    /\ res.val = Some(MkPoint(3, <<0, 1>>))

\* the offset a single step is, and whether p is on the edge it leads to
StepDelta(op) ==
    CASE op = "left" -> <<-1, 0>>
      [] op = "right" -> <<1, 0>>
      [] op = "up" -> <<0, -1>>
      [] OTHER -> <<0, 1>>

OnEdge(g, op, p) ==
    CASE op = "left" -> p.coords[1] = 0
      [] op = "right" -> p.coords[1] = g.width - 1
      [] op = "up" -> p.coords[2] = 0
      [] OTHER -> p.coords[2] = g.height - 1

Composite(g, f) ==
    CHOOSE h \in MapFuncs :
        \A v \in Vals : call_map_func(h, v) = call_map_func(g, call_map_func(f, v))

\* C14: map(f) returns a grid with the width and the height of its source
\* whose cell (x, y) is f of the source's cell (x, y); mapping the result
\* through g gives the grid map(|v| g(f(v))) gives of the source.
C14_Map ==
    res.op = "map" =>
        LET src == res.before
            f == res.args[2]
        IN  /\ res.outcome = "ok"
            /\ grid.width = src.width /\ grid.height = src.height
            /\ Len(grid.data) = Len(src.data)
            /\ \A x \in 0..(src.width - 1), y \in 0..(src.height - 1) :
                  Cell(grid, x, y) = call_map_func(f, Cell(src, x, y))
            /\ \A g \in MapFuncs : map(grid, g) = map(src, Composite(g, f))

\* C14 witness: map(|v| !v) has returned for a 3 x 2 grid whose cell (0, 0) is
\* true and whose cell (2, 1) is false.
C14_Witness ==
    /\ res.op = "map" /\ res.outcome = "ok" /\ res.args[2] = "not"
    /\ res.before.width = 3 /\ res.before.height = 2
    /\ Cell(res.before, 0, 0) /\ ~Cell(res.before, 2, 1)
    /\ ~Cell(grid, 0, 0) /\ Cell(grid, 2, 1)

\* the coordinates of the cells of g that hold val
CellsWith(g, val) ==
    {c \in (0..(g.width - 1)) \X (0..(g.height - 1)) : Cell(g, c[1], c[2]) = val}

\* C15: find(value) yields the points of the cells that hold value and no
\* other, each once, in storage (row-major) order, each with the coordinates
\* and the index of its cell and dereferencing to value; a grid with exactly
\* one such cell yields exactly one point.
C15_Find ==
    res.op = "find" =>
        LET val == res.args[1]
            ps == res.val
        IN  /\ res.outcome = "ok"
            /\ \A k \in 1..Len(ps) :
                  /\ PointOk(grid, ps[k])
                  /\ ps[k].coords \in CellsWith(grid, val)
                  /\ deref(grid, ps[k]) = Ok(val)
            /\ \A j, k \in 1..Len(ps) : j < k => ps[j].index < ps[k].index
            /\ \A c \in CellsWith(grid, val) : \E k \in 1..Len(ps) : ps[k].coords = c
            /\ Len(ps) = Cardinality(CellsWith(grid, val))
            /\ Cardinality(CellsWith(grid, val)) = 1 => Len(ps) = 1

\* C15 witness: find(true) has yielded the points of (1, 0) and (0, 1), the
\* two cells of a 3 x 2 grid that hold true.
C15_Witness ==
    /\ res.op = "find" /\ res.outcome = "ok" /\ res.args[1] = TRUE
    /\ grid.width = 3 /\ grid.height = 2
    /\ res.val = <<MkPoint(1, <<1, 0>>), MkPoint(3, <<0, 1>>)>>

\* the coordinates of a w x h grid in row-major order: y outer, x inner
RowMajor(w, h) == [k \in 1..(w * h) |-> <<(k - 1) % w, (k - 1) \div w>>]

\* C16: from_fn(width, height, f) calls f once with each coordinate, in
\* row-major order (y outer, x inner), and returns a grid of the given width
\* and height with get((x, y)) == f(x, y) for every x < width and y < height.
C16_FromFn ==
    res.op = "from_fn" =>
        LET w == res.args[1]
            h == res.args[2]
            f == res.args[3]
        IN  /\ res.outcome = "ok"
            /\ grid.width = w /\ grid.height = h
            /\ \A x \in 0..(w - 1), y \in 0..(h - 1) :
                  get(grid, <<x, y>>) = Ok(call_func(f, x, y))
            /\ from_fn(w, h, "coords").val.data = RowMajor(w, h)

\* C16 witness: from_fn(3, 2, |x, y| (x + y) % 2 == 1) has returned.
C16_Witness ==
    /\ res.op = "from_fn" /\ res.outcome = "ok"
    /\ res.args = <<3, 2, "sum_odd">>
    /\ grid.data = <<FALSE, TRUE, FALSE, TRUE, FALSE, TRUE>>

\* C19: points() yields width*height points, one per cell, in storage order:
\* the k-th (from 0) has index k and coordinates (k mod width, k div width);
\* a point of points() or of point() dereferences to what get() returns at its
\* coordinates; points() called again yields the same points from the first
\* cell on.
C19_Points ==
    /\ res.op = "points" =>
          /\ res.outcome = "ok"
          /\ Len(res.val) = grid.width * grid.height
          /\ \A k \in 1..Len(res.val) :
                /\ res.val[k] = MkPoint(k - 1, RowMajor(grid.width, grid.height)[k])
                /\ deref(grid, res.val[k]) = get(grid, res.val[k].coords)
          /\ points(grid) = Ok(res.val)
    /\ res.op = "point" /\ res.outcome = "ok" =>
          deref(grid, res.val[1]) = get(grid, res.val[1].coords)

\* C19 witness: points() has yielded the six points of a 2 x 3 grid whose
\* cells (1, 0) and (0, 2) differ.
C19_Witness ==
    /\ res.op = "points" /\ res.outcome = "ok"
    /\ grid.width = 2 /\ grid.height = 3
    /\ Len(res.val) = 6
    /\ res.val[4] = MkPoint(3, <<1, 1>>)
    /\ Cell(grid, 1, 0) # Cell(grid, 0, 2)

\* the lines of an input, without their line feeds: the last one may be empty
RECURSIVE Lines(_)
Lines(input) ==
    IF \A k \in 1..Len(input) : input[k] # "nl" THEN <<input>>
    ELSE LET n == CHOOSE k \in 1..Len(input) :
                      input[k] = "nl" /\ \A j \in 1..(k - 1) : input[j] # "nl"
         IN  <<SubSeq(input, 1, n - 1)>> \o Lines(SubSeq(input, n + 1, Len(input)))

\* the non-blank lines of an input, in order
NonBlankLines(input) == SelectSeq(Lines(input), LAMBDA l : l # <<>>)

\* C17: load_grid returns a grid only for an input whose non-blank lines all
\* have the same number of characters; the grid then has that number as its
\* width, the number of non-blank lines as its height, and the conversion of
\* the x-th character of the y-th non-blank line as its cell (x, y).
C17_LoadGrid ==
    (res.op = "load_grid" /\ res.outcome = "ok") =>
        LET ls == NonBlankLines(res.args[1])
        IN  /\ \A i, j \in 1..Len(ls) : Len(ls[i]) = Len(ls[j])
            /\ grid.height = Len(ls)
            /\ \A y \in 1..Len(ls) :
                  /\ grid.width = Len(ls[y])
                  /\ \A x \in 1..Len(ls[y]) :
                        get(grid, <<x - 1, y - 1>>) = try_from_char(ls[y][x])

\* C18: load_grid returns an error value, and does not panic, for an input
\* with a character whose conversion fails in a non-blank line or with a
\* non-blank line whose number of characters differs from that of the first
\* non-blank line.
C18_LoadGridErrors ==
    res.op = "load_grid" =>
        LET ls == NonBlankLines(res.args[1])
        IN  (\/ \E y \in 1..Len(ls) : \E x \in 1..Len(ls[y]) :
                    try_from_char(ls[y][x]).outcome = "err"
             \/ \E y \in 1..Len(ls) : Len(ls[y]) # Len(ls[1]))
                => res.outcome = "err"

C23_LoadGridTotal ==
    res.op = "load_grid" =>
        /\ res.outcome # "panic"
        /\ res.outcome = "ok" => GridOk(grid)

\* C26: a set((x, y), v) that returns leaves get((x, y)) == v, every other
\* cell, the width and the height as they were; fill(v) leaves every cell
\* equal to v and the width and the height as they were.
C26_SetAndFillFrame ==
    /\ (res.op = "set" /\ res.outcome = "ok") =>
          LET x == res.args[1]
              y == res.args[2]
          IN  /\ grid.width = res.before.width /\ grid.height = res.before.height
              /\ Len(grid.data) = Len(res.before.data)
              /\ get(grid, <<x, y>>) = Ok(res.args[3])
              /\ \A c \in (0..(grid.width - 1)) \X (0..(grid.height - 1)) :
                    c # <<x, y>> => get(grid, c) = get(res.before, c)
    /\ res.op = "fill" =>
          /\ res.outcome = "ok"
          /\ grid.width = res.before.width /\ grid.height = res.before.height
          /\ Len(grid.data) = Len(res.before.data)
          /\ \A c \in (0..(grid.width - 1)) \X (0..(grid.height - 1)) :
                get(grid, c) = Ok(res.args[1])

\* C26 witness: set((1, 0), true) has returned on a 3 x 2 grid whose cell
\* (1, 0) was false and whose cells (2, 0) and (0, 1) are false and true.
C26_Witness ==
    /\ res.op = "set" /\ res.outcome = "ok"
    /\ res.args = <<1, 0, TRUE>>
    /\ grid.width = 3 /\ grid.height = 2
    /\ ~Cell(res.before, 1, 0) /\ Cell(grid, 1, 0)
    /\ ~Cell(grid, 2, 0) /\ Cell(grid, 0, 1)

\* the digits and number words of a line in order of position: the digit at
\* byte i, or the number of the word that starts at byte i
RECURSIVE OccurrencesFrom(_, _)
OccurrencesFrom(line, i) ==
    IF i > Len(line) THEN <<>>
    ELSE LET rest == SubSeq(line, i, Len(line))
             here == IF is_ascii_digit(line[i]) THEN <<sub_byte(line[i], AsciiDigits)>>
                     ELSE IF \E k \in 1..Len(DIGITS) : starts_with(rest, DIGITS[k][1])
                     THEN <<(CHOOSE k \in 1..Len(DIGITS) : starts_with(rest, DIGITS[k][1]))>>
                     ELSE <<>>
         IN  here \o OccurrencesFrom(line, i + 1)

\* C21: for every line digits3 returns the digits digits2 returns, which are
\* the ASCII digits and the words one..nine of the line in order of position,
\* words that share a last and first letter included; calibration of the two
\* is the same value.
C21_Digits3IsDigits2 ==
    /\ res.op \in {"digits2", "digits3"} =>
          /\ res.outcome = "ok"
          /\ res.val = digits2(res.args[1])
          /\ res.val = digits3(res.args[1])
          /\ res.val = OccurrencesFrom(res.args[1], 1)
    /\ res.op = "calibration" =>
          /\ res.val = calibration(digits2(res.args[2]))
          /\ res.val = calibration(digits3(res.args[2]))

\* C21 witness: digits3 has returned 1, 8 for the line "oneight".
C21_Witness ==
    /\ res.op = "digits3" /\ res.outcome = "ok"
    /\ res.args[1] = <<"o", "n", "e", "i", "g", "h", "t">>
    /\ res.val = <<1, 8>>

IsDigit(g, x, y) == Cell(g, x, y).kind = "Digit"

\* the first and the last column of the maximal run of digit cells of row y
\* that holds the digit cell (x, y)
RunStart(g, x, y) ==
    CHOOSE a \in 0..x :
        /\ \A i \in a..x : IsDigit(g, i, y)
        /\ a > 0 => ~IsDigit(g, a - 1, y)

RunEnd(g, x, y) ==
    CHOOSE b \in x..(g.width - 1) :
        /\ \A i \in x..b : IsDigit(g, i, y)
        /\ b < g.width - 1 => ~IsDigit(g, b + 1, y)

\* the decimal value of the digits of the cells a..b of row y, left to right
RECURSIVE RunValue(_, _, _, _)
RunValue(g, a, b, y) ==
    IF b < a THEN 0 ELSE 10 * RunValue(g, a, b - 1, y) + Cell(g, b, y).n

\* the digit cells of g, and its runs as <<first column, row>>
DigitCells(g) ==
    {c \in (0..(g.width - 1)) \X (0..(g.height - 1)) : IsDigit(g, c[1], c[2])}

Runs(g) == {<<RunStart(g, c[1], c[2]), c[2]>> : c \in DigitCells(g)}

\* C22: from_grid returns, for every grid, number_ids of the shape of the grid
\* with Some(id) on every digit cell and None on every other cell, one id per
\* maximal horizontal run of digit cells (two digit cells have the same id
\* exactly when they are in the same run of the same row), numbers[id] the
\* decimal value of the digits of the run read left to right, and
\* numbers.len() the number of runs.
C22_NumberMap ==
    res.op = "from_grid" =>
        /\ res.outcome = "ok"
        /\ LET numbers == res.val.numbers
               ids == res.val.number_ids
           IN  /\ ids.width = grid.width /\ ids.height = grid.height
               /\ Len(ids.data) = Len(grid.data)
               /\ \A c \in (0..(grid.width - 1)) \X (0..(grid.height - 1)) :
                     (Cell(ids, c[1], c[2]) # None) <=> IsDigit(grid, c[1], c[2])
               /\ \A c, d \in DigitCells(grid) :
                     (Cell(ids, c[1], c[2]) = Cell(ids, d[1], d[2]))
                         <=> (c[2] = d[2] /\ RunStart(grid, c[1], c[2]) = RunStart(grid, d[1], d[2]))
               /\ \A c \in DigitCells(grid) :
                     LET id == Cell(ids, c[1], c[2])[1]
                     IN  /\ id < Len(numbers)
                         /\ numbers[id + 1] = RunValue(grid, RunStart(grid, c[1], c[2]),
                                                       RunEnd(grid, c[1], c[2]), c[2])
               /\ Len(numbers) = Cardinality(Runs(grid))


\* the matches of the cards of a list
Matches(input) == [k \in 1..Len(input) |-> Cardinality(input[k].winning \cap input[k].numbers)]

\* the direct rule: the copies of card i (from 1) of a list with matches ms are
\* the original and one for each copy of each earlier card j whose ms[j]
\* following cards include card i
RECURSIVE Copies(_, _)
Copies(ms, i) ==
    LET RECURSIVE From(_)
        From(j) == IF j >= i THEN 0
                   ELSE (IF j + ms[j] >= i THEN Copies(ms, j) ELSE 0) + From(j + 1)
    IN  1 + From(1)

RECURSIVE TotalCopies(_, _)
TotalCopies(ms, i) == IF i > Len(ms) THEN 0 ELSE Copies(ms, i) + TotalCopies(ms, i + 1)

\* C24: solve2 of p04 returns, for every list of cards, the total of the
\* direct rule: one copy of every card to start with, and each copy of a card
\* with m > 0 matches adds one copy of each of the m cards after it that the
\* list has
C24_Solve2IsDirectRule ==
    res.op = "solve2" =>
        /\ res.outcome = "ok"
        /\ res.val = TotalCopies(Matches(res.args[1]), 1)


\* the start of piece k of a source range that starts at start: start and
\* the lengths of the pieces before it
RECURSIVE PieceStart(_, _, _)
PieceStart(pieces, start, k) ==
    IF k = 1 THEN start ELSE PieceStart(pieces, start, k - 1) + pieces[k - 1][2]

\* C25: for a Map whose ranges are sorted by src, do not overlap and have
\* positive length, and a source range (start, len) with len > 0, map_range
\* emits pieces (d_k, n_k) with n_k > 0 whose lengths add up to len, each the
\* image under map_one of the next n_k values of the source range, value by
\* value; so the least piece start is the least map_one of the source range
C25_MapRangeIsMapOne ==
    res.op = "map_range" =>
        LET ranges == res.args[1]
            start == res.args[2][1]
            len == res.args[2][2]
            checks == res.args[3]
            pieces == res.val
        IN  /\ res.outcome = "ok"
            /\ \A k \in 1..Len(pieces) : pieces[k][2] > 0
            /\ PieceStart(pieces, start, Len(pieces) + 1) = start + len
            /\ \A k \in 1..Len(pieces) : \A i \in 0..(pieces[k][2] - 1) :
                  map_one(ranges, PieceStart(pieces, start, k) + i, checks)
                      = Ok(pieces[k][1] + i)
            /\ \E k \in 1..Len(pieces) :
                  /\ \A j \in 1..Len(pieces) : pieces[k][1] <= pieces[j][1]
                  /\ \A x \in start..(start + len - 1) :
                        map_one(ranges, x, checks).val >= pieces[k][1]
                  /\ \E x \in start..(start + len - 1) :
                        map_one(ranges, x, checks) = Ok(pieces[k][1])

====
